---- MODULE Spec2Model ----
(***************************************************************************)
(* State-machine model of gammapy.spectrum.fit.SpectrumFit:                *)
(* bin masking by fit range and quality, predicted counts, per-bin         *)
(* statistic, the optimizer-driven fit, error estimation and run().        *)
(* Energies and counts are integers; python index k is k+1 here.           *)
(***************************************************************************)
EXTENDS Integers, Sequences, FiniteSets, TLC

VARIABLES obs_list, stat, background_model, method, err_method, err_method_arg,
          fit_range, bins_in_fit_range, amplitude, model_copies,
          predicted_counts, statval, covar_axis, covariance, result,
          sherpa_fit, pc, evaluated, nfits, cwd, run_cwd, in_run, outcome,
          last_op

vars == <<obs_list, stat, background_model, method, err_method, err_method_arg,
          fit_range, bins_in_fit_range, amplitude, model_copies,
          predicted_counts, statval, covar_axis, covariance, result,
          sherpa_fit, pc, evaluated, nfits, cwd, run_cwd, in_run, outcome,
          last_op>>

----------------------------------------------------------------------------
(* Bounds *)
MaxObs == 2
MaxBins == 3
MaxAmp == 2
MaxFits == 2

(* Python's None: for sequences and lists, and for scalars *)
None == <<>>
NoValue == 0

(* Energy grid: bin edges are the even numbers 2, 4, ..., so odd energies  *)
(* fall strictly inside a bin, 1 lies below and the top value above all.   *)
EdgeStep == 2
Energies == 1..(EdgeStep * (MaxBins + 1) + 1)
RangePairs == {r \in Energies \X Energies : r[1] <= r[2]}
FitRanges == {None} \cup RangePairs
Amps == 1..MaxAmp

(* obs.e_reco: nbins + 1 strictly increasing edges *)
e_reco(obs) == [i \in 1..(obs.nbins + 1) |-> EdgeStep * i]

(* Observed counts (on = 10, 5, 2, ...; off = 8, 4, 1, ...) and alpha *)
OnCounts(b) == IF b = 1 THEN 10 ELSE IF b = 2 THEN 5 ELSE 2
OffCounts(b) == IF b = 1 THEN 8 ELSE IF b = 2 THEN 4 ELSE 1
Alpha == 2
BkgAmplitude == 2

(* quality: bins below the observation's threshold are flagged bad (1) *)
Quality(nbins, nbad) == [b \in 1..nbins |-> IF b <= nbad THEN 1 ELSE 0]

Observation(n, o, k) == [nbins |-> n, has_off |-> o, quality |-> Quality(n, k)]

Observations == {Observation(MaxBins, o, k) : o \in BOOLEAN, k \in 0..MaxBins}

ObsLists(types) == UNION { [1..n -> types] : n \in 1..MaxObs }

----------------------------------------------------------------------------
(* Sequence helpers *)
RECURSIVE SumSeq(_)
SumSeq(s) == IF Len(s) = 0 THEN 0 ELSE Head(s) + SumSeq(Tail(s))

SetMin(S) == CHOOSE x \in S : \A y \in S : x <= y
SetMax(S) == CHOOSE x \in S : \A y \in S : y <= x

RECURSIVE ILog2(_)
ILog2(n) == IF n <= 1 THEN 0 ELSE 1 + ILog2(n \div 2)

(* floor of the square root, by bisection: lo * lo <= n < hi * hi *)
RECURSIVE SqrtBetween(_, _, _)
SqrtBetween(n, lo, hi) ==
    IF hi - lo <= 1 THEN lo
    ELSE LET mid == (lo + hi) \div 2
         IN  IF mid * mid <= n THEN SqrtBetween(n, mid, hi)
             ELSE SqrtBetween(n, lo, mid)
ISqrt(n) == SqrtBetween(n, 0, n + 1)

----------------------------------------------------------------------------
(* _apply_fit_range, body of the loop for one observation.                 *)
(* idx_lo ranges over the nbins + 1 edges; writing it into the nbins-long  *)
(* valid_range raises IndexError when the last edge is below the range.    *)
idx_lo(obs, fr) == {i \in 1..(obs.nbins + 1) : e_reco(obs)[i] < fr[1]}

idx_hi_raw(obs, fr) == {i \in 1..obs.nbins : e_reco(obs)[i] > fr[2]}

(* np.insert(idx_hi, 0, idx_hi[0] - 1); python index -1 is the last bin *)
idx_hi(obs, fr) ==
    LET raw == idx_hi_raw(obs, fr)
    IN  IF raw = {} THEN {}
        ELSE raw \cup {IF SetMin(raw) = 1 THEN obs.nbins ELSE SetMin(raw) - 1}

apply_raises(obs, fr) == fr # None /\ (obs.nbins + 1) \in idx_lo(obs, fr)

valid_range(obs, fr) ==
    [b \in 1..obs.nbins |->
        IF fr # None /\ (b \in idx_lo(obs, fr) \/ b \in idx_hi(obs, fr))
        THEN 1 ELSE 0]

(* np.logical_and(1 - quality, 1 - valid_range): TRUE marks a retained bin *)
convolved(obs, fr) ==
    [b \in 1..obs.nbins |->
        (1 - obs.quality[b] # 0) /\ (1 - valid_range(obs, fr)[b] # 0)]

(* _apply_fit_range over the list: the masks appended before an IndexError *)
RECURSIVE apply_fit_range(_, _, _)
apply_fit_range(obs, fr, acc) ==
    IF Len(obs) = 0 THEN acc
    ELSE IF apply_raises(Head(obs), fr) THEN acc
    ELSE apply_fit_range(Tail(obs), fr, Append(acc, convolved(Head(obs), fr)))

apply_fit_range_raises(obs, fr) == \E i \in 1..Len(obs) : apply_raises(obs[i], fr)

----------------------------------------------------------------------------
(* true_fit_range: zip(_bins_in_fit_range, obs_list); IndexError on idx[0] *)
(* when an observation has no retained bin.                                *)
Retained(mask) == {b \in 1..Len(mask) : mask[b]}

ZipLen(a, b) == IF Len(a) < Len(b) THEN Len(a) ELSE Len(b)

true_fit_range_raises(masks, obs) ==
    \E i \in 1..ZipLen(masks, obs) : Retained(masks[i]) = {}

(* (e_min, e_max) of one observation: obs.e_reco[idx[0]], [idx[-1] + 1] *)
true_range_of(mask, obs) ==
    <<e_reco(obs)[SetMin(Retained(mask))], e_reco(obs)[SetMax(Retained(mask)) + 1]>>

true_fit_range(masks, obs) ==
    [i \in 1..ZipLen(masks, obs) |-> true_range_of(masks[i], obs[i])]

----------------------------------------------------------------------------
(* Collaborators outside fit.py: model evaluation and gammapy.stats.       *)
(* Integer stand-ins: a constant-flux model, floor(log2) for the           *)
(* logarithm and the integer square root in the profile estimate.          *)
Livetime == 3

calculate_predicted_counts(obs, amp) ==
    [b \in 1..obs.nbins |-> amp * Livetime * (e_reco(obs)[b + 1] - e_reco(obs)[b])]

integral(obs, amp) ==
    [b \in 1..obs.nbins |-> amp * (e_reco(obs)[b + 1] - e_reco(obs)[b])]

cash(n_on, mu_on) == 2 * (mu_on - n_on * ILog2(mu_on))

get_wstat_mu_bkg(n_on, n_off, alpha, mu_sig) ==
    LET C == alpha * (n_on + n_off) - (1 + alpha) * mu_sig
        D == ISqrt(C * C + 4 * alpha * (alpha + 1) * n_off * mu_sig)
    IN  (C + D) \div (2 * alpha * (alpha + 1))

wstat(n_on, n_off, alpha, mu_sig) ==
    LET mu_bkg == get_wstat_mu_bkg(n_on, n_off, alpha, mu_sig)
    IN  2 * (mu_sig + (1 + alpha) * mu_bkg
             - n_on * ILog2(mu_sig + alpha * mu_bkg) - n_off * ILog2(mu_bkg))

(* The statistic functions tabulated per bin over the predictable counts *)
MuValues == 1..(MaxAmp * Livetime * EdgeStep + BkgAmplitude * EdgeStep)

CashOn == [b \in 1..MaxBins, mu \in MuValues |-> cash(OnCounts(b), mu)]
CashOff == [b \in 1..MaxBins, mu \in MuValues |-> cash(OffCounts(b), mu)]
WStat == [b \in 1..MaxBins, mu \in MuValues |->
             wstat(OnCounts(b), OffCounts(b), Alpha, mu)]
WStatMuBkg == [b \in 1..MaxBins, mu \in MuValues |->
                  get_wstat_mu_bkg(OnCounts(b), OffCounts(b), Alpha, mu)]

----------------------------------------------------------------------------
(* predict_counts *)
forward_folded == TRUE

predict_counts_helper(obs, amp, folded) ==
    IF folded THEN calculate_predicted_counts(obs, amp) ELSE integral(obs, amp)

predict_counts(obs, amp, bkg) ==
    [i \in 1..Len(obs) |->
        <<predict_counts_helper(obs[i], amp, forward_folded),
          IF bkg # NoValue THEN predict_counts_helper(obs[i], bkg, FALSE) ELSE None>>]

----------------------------------------------------------------------------
(* _calc_statval_helper for one observation and its prediction record.     *)
(* Reading obs.off_vector.data of an observation without off-vector raises *)
(* AttributeError; an unknown statistic raises NotImplementedError.        *)
helper_raises(obs, st, bkg) ==
    \/ st \notin {"cash", "wstat"}
    \/ st = "wstat" /\ ~obs.has_off
    \/ st = "cash" /\ bkg # NoValue /\ ~obs.has_off

helper_on_stat(obs, prediction, st, bkg) ==
    [b \in 1..obs.nbins |->
        IF st = "cash"
        THEN CashOn[b, IF bkg # NoValue THEN prediction[1][b] + prediction[2][b]
                       ELSE prediction[1][b]]
        ELSE WStat[b, prediction[1][b]]]

helper_off_stat(obs, prediction, st, bkg) ==
    [b \in 1..obs.nbins |->
        IF st = "cash" /\ bkg # NoValue
        THEN CashOff[b, prediction[2][b] \div Alpha]
        ELSE 0]

(* Variant: the profiled background is not stored in the prediction record *)
helper_prediction_kept(obs, prediction, st) == prediction

(* prediction[1] = mu_bkg * obs.alpha, the side effect under wstat *)
helper_prediction(obs, prediction, st) ==
    IF st = "wstat"
    THEN <<prediction[1],
           [b \in 1..obs.nbins |->
               WStatMuBkg[b, prediction[1][b]] * Alpha]>>
    ELSE prediction

(* Index of the first observation whose helper raises, 0 if none *)
first_raising(obs, st, bkg) ==
    LET R == {i \in 1..Len(obs) : helper_raises(obs[i], st, bkg)}
    IN  IF R = {} THEN 0 ELSE SetMin(R)

(* Variant: only the on-statistic is zeroed outside the mask *)
restrict_statval_on_only(sv, masks) ==
    [i \in 1..Len(sv) |->
        IF i <= Len(masks)
        THEN <<[b \in 1..Len(sv[i][1]) |-> IF masks[i][b] THEN sv[i][1][b] ELSE 0],
               sv[i][2]>>
        ELSE sv[i]]

(* _restrict_statval: zip(statval, _bins_in_fit_range) *)
restrict_statval(sv, masks) ==
    [i \in 1..Len(sv) |->
        IF i <= Len(masks)
        THEN <<[b \in 1..Len(sv[i][1]) |-> IF masks[i][b] THEN sv[i][1][b] ELSE 0],
               [b \in 1..Len(sv[i][2]) |-> IF masks[i][b] THEN sv[i][2][b] ELSE 0]>>
        ELSE sv[i]]

(* calc_statval: the new (predicted_counts, statval, raised) *)
calc_statval(obs, preds, sv, st, bkg, masks) ==
    IF preds = None THEN [preds |-> preds, statval |-> sv, raised |-> "TypeError"]
    ELSE
    LET f == first_raising(obs, st, bkg)
        done(i) == f = 0 \/ i < f
        newpreds == [i \in 1..Len(obs) |->
                        IF done(i) THEN helper_prediction(obs[i], preds[i], st)
                        ELSE preds[i]]
        raw == [i \in 1..Len(obs) |->
                   <<helper_on_stat(obs[i], preds[i], st, bkg),
                     helper_off_stat(obs[i], preds[i], st, bkg)>>]
    IN  IF f # 0
        THEN [preds |-> newpreds, statval |-> sv,
              raised |-> IF st \in {"cash", "wstat"} THEN "AttributeError"
                         ELSE "NotImplementedError"]
        ELSE [preds |-> newpreds, statval |-> restrict_statval(raw, masks),
              raised |-> "ok"]

(* total_stat: np.sum(self.statval) *)
total_stat(sv) ==
    SumSeq([i \in 1..Len(sv) |-> SumSeq(sv[i][1]) + SumSeq(sv[i][2])])

(* One objective evaluation: set the parameter, predict_counts, calc_statval *)
evaluate(obs, amp, sv, st, bkg, masks) ==
    calc_statval(obs, predict_counts(obs, amp, bkg), sv, st, bkg, masks)

----------------------------------------------------------------------------
(* __init__ *)
Methods == {"sherpa", "simplex"}
Stats == {"cash", "wstat"}
Dirs == {"start", "out"}

(* self.err_method as stored by the constructor *)
init_err_method(m, em) == m

Constructed(obsS, frS) ==
    /\ obs_list \in obsS
    /\ stat \in Stats
    /\ background_model \in {NoValue, BkgAmplitude}
    /\ method \in Methods
    /\ err_method_arg \in Methods
    /\ err_method = init_err_method(method, err_method_arg)
    /\ fit_range \in frS
    /\ ~apply_fit_range_raises(obs_list, fit_range)
    /\ bins_in_fit_range = apply_fit_range(obs_list, fit_range, <<>>)
    /\ amplitude = 1
    /\ model_copies = <<>>
    /\ predicted_counts = None
    /\ statval = None
    /\ covar_axis = None
    /\ covariance = NoValue
    /\ result = <<>>
    /\ sherpa_fit = FALSE
    /\ pc = "idle"
    /\ evaluated = FALSE
    /\ nfits = 0
    /\ cwd = "start"
    /\ run_cwd = "start"
    /\ in_run = FALSE
    /\ outcome = "ok"
    /\ last_op = "init"

config == <<obs_list, stat, background_model, method, err_method, err_method_arg>>
fs == <<cwd, run_cwd, in_run>>
fitstate == <<model_copies, covar_axis, covariance, result, sherpa_fit, pc, evaluated, nfits>>

----------------------------------------------------------------------------
(* fit_range setter: assigns _fit_range, then _apply_fit_range *)
SetFitRange(fr) ==
    /\ pc = "idle" /\ ~in_run
    /\ fit_range' = fr
    /\ bins_in_fit_range' = apply_fit_range(obs_list, fr, <<>>)
    /\ outcome' = IF apply_fit_range_raises(obs_list, fr) THEN "IndexError" ELSE "ok"
    /\ last_op' = "fit_range"
    /\ UNCHANGED <<config, fs, fitstate, amplitude, predicted_counts, statval>>

(* predict_counts() called directly *)
PredictCounts ==
    /\ pc = "idle" /\ ~in_run
    /\ predicted_counts' = predict_counts(obs_list, amplitude, background_model)
    /\ outcome' = "ok"
    /\ last_op' = "predict_counts"
    /\ UNCHANGED <<config, fs, fitstate, amplitude, fit_range, bins_in_fit_range,
                   statval>>

(* calc_statval() called directly *)
CalcStatval ==
    /\ pc = "idle" /\ ~in_run
    /\ LET r == calc_statval(obs_list, predicted_counts, statval, stat,
                             background_model, bins_in_fit_range)
       IN  /\ predicted_counts' = r.preds
           /\ statval' = r.statval
           /\ outcome' = r.raised
    /\ last_op' = "calc_statval"
    /\ UNCHANGED <<config, fs, fitstate, amplitude, fit_range, bins_in_fit_range>>

(* likelihood_1d: for each value set the parameter, predict, calc_statval; *)
(* an exception does not depend on the value, so it leaves the first one.  *)
Likelihood1d(parvals) ==
    /\ pc = "idle" /\ ~in_run
    /\ LET first == evaluate(obs_list, parvals[1], statval, stat,
                             background_model, bins_in_fit_range)
           last == evaluate(obs_list, parvals[Len(parvals)], statval, stat,
                            background_model, bins_in_fit_range)
           r == IF first.raised # "ok" THEN first ELSE last
       IN  /\ amplitude' = IF first.raised # "ok" THEN parvals[1]
                           ELSE parvals[Len(parvals)]
           /\ predicted_counts' = r.preds
           /\ statval' = r.statval
           /\ outcome' = r.raised
    /\ last_op' = "likelihood_1d"
    /\ UNCHANGED <<config, fs, fitstate, fit_range, bins_in_fit_range>>

----------------------------------------------------------------------------
(* fit(): _check_valid_fit, then the backend dispatch *)
check_valid_fit_raises(obs, st) == st = "wstat" /\ ~obs[1].has_off

fit_begin(obs, st, m) ==
    IF check_valid_fit_raises(obs, st) THEN "ValueError"
    ELSE IF m # "sherpa" THEN "NotImplementedError"
    ELSE "ok"

(* fit() up to the start of the sherpa optimizer in _fit_sherpa *)
Fit ==
    /\ pc = "idle" /\ ~in_run /\ nfits < MaxFits
    /\ LET o == fit_begin(obs_list, stat, method)
       IN  /\ outcome' = IF o = "ok" THEN "running" ELSE o
           /\ pc' = IF o = "ok" THEN "fit" ELSE "idle"
           /\ sherpa_fit' = (sherpa_fit \/ o = "ok")
    /\ evaluated' = FALSE
    /\ nfits' = nfits + 1
    /\ last_op' = "fit"
    /\ UNCHANGED <<config, fs, fit_range, bins_in_fit_range, amplitude,
                   model_copies, predicted_counts, statval, covar_axis,
                   covariance, result>>

(* run(outdir): cwd, mkdir, chdir, then fit() up to the optimizer start *)
NoDir == ""

Run(outdir, mkdir_ok) ==
    /\ pc = "idle" /\ ~in_run /\ nfits < MaxFits
    /\ run_cwd' = cwd
    /\ last_op' = "run"
    /\ IF ~mkdir_ok
       THEN /\ outcome' = "OSError"
            /\ UNCHANGED <<cwd, in_run, pc, sherpa_fit, evaluated, nfits>>
       ELSE LET o == fit_begin(obs_list, stat, method)
            IN  /\ cwd' = IF outdir = NoDir THEN cwd ELSE outdir
                /\ outcome' = IF o = "ok" THEN "running" ELSE o
                /\ pc' = IF o = "ok" THEN "fit" ELSE "idle"
                /\ in_run' = (o = "ok")
                /\ sherpa_fit' = (sherpa_fit \/ o = "ok")
                /\ evaluated' = FALSE
                /\ nfits' = nfits + 1
    /\ UNCHANGED <<config, fit_range, bins_in_fit_range, amplitude,
                   model_copies, predicted_counts, statval, covar_axis,
                   covariance, result>>

(* One objective evaluation requested by the optimizer or by the error     *)
(* estimator: set the parameters, predict_counts, calc_statval             *)
Objective(p) ==
    /\ pc \in {"fit", "err"}
    /\ LET r == evaluate(obs_list, p, statval, stat, background_model,
                         bins_in_fit_range)
       IN  /\ amplitude' = p
           /\ predicted_counts' = r.preds
           /\ statval' = r.statval
           /\ outcome' = IF r.raised = "ok" THEN outcome ELSE r.raised
           /\ pc' = IF r.raised = "ok" THEN pc ELSE "idle"
           /\ in_run' = (in_run /\ r.raised = "ok")
    /\ evaluated' = TRUE
    /\ UNCHANGED <<config, cwd, run_cwd, fit_range, bins_in_fit_range,
                   model_copies, covar_axis, covariance, result, sherpa_fit,
                   nfits, last_op>>

----------------------------------------------------------------------------
(* _make_fit_result *)

(* Variant: the results hold the live model instead of a copy *)
model_alias(n) == 0

(* self.model.copy(): the reference the results hold; 0 is the live model  *)
model_copy(n) == n + 1

(* Index at which the loop raises IndexError, 0 if it completes *)
make_fit_result_raises_at(masks, obs) ==
    IF true_fit_range_raises(masks, obs) THEN 1
    ELSE IF ZipLen(masks, obs) < Len(obs) THEN ZipLen(masks, obs) + 1
    ELSE 0

FitResult(idx, ref) ==
    [model |-> ref,
     covariance |-> NoValue,
     covar_axis |-> None,
     fit_range |-> true_fit_range(bins_in_fit_range, obs_list)[idx],
     statname |-> stat,
     statval |-> SumSeq(statval[idx][1]) + SumSeq(statval[idx][2]),
     npred_src |-> predicted_counts[idx][1],
     npred_bkg |-> predicted_counts[idx][2],
     background_model |-> background_model,
     obs |-> idx]

make_fit_result(res, ref) ==
    LET at == make_fit_result_raises_at(bins_in_fit_range, obs_list)
        k == IF at = 0 THEN Len(obs_list) ELSE at - 1
    IN  res \o [i \in 1..k |-> FitResult(i, ref)]

(* The optimizer returns; _make_fit_result bundles the results *)
FitEnd ==
    /\ pc = "fit" /\ evaluated
    /\ LET at == make_fit_result_raises_at(bins_in_fit_range, obs_list)
       IN  /\ outcome' = IF at = 0 THEN "ok" ELSE "IndexError"
           /\ pc' = IF at = 0 /\ in_run THEN "fitted" ELSE "idle"
           /\ in_run' = (in_run /\ at = 0)
    /\ model_copies' = Append(model_copies,
                              [amplitude |-> amplitude, covariance |-> NoValue,
                               covar_axis |-> None])
    /\ result' = make_fit_result(result, model_copy(Len(model_copies)))
    /\ UNCHANGED <<config, cwd, run_cwd, fit_range, bins_in_fit_range, amplitude,
                   predicted_counts, statval, covar_axis, covariance,
                   sherpa_fit, evaluated, nfits, last_op>>

----------------------------------------------------------------------------
(* est_errors(): backend dispatch, then _est_errors_sherpa *)
est_begin(em, has_fit) ==
    IF em # "sherpa" THEN "NotImplementedError"
    ELSE IF ~has_fit THEN "AttributeError"
    ELSE "ok"

EstErrors ==
    /\ \/ pc = "idle" /\ ~in_run
       \/ pc = "fitted" /\ in_run
    /\ LET o == est_begin(err_method, sherpa_fit)
       IN  /\ outcome' = IF o = "ok" THEN "running" ELSE o
           /\ pc' = IF o = "ok" THEN "err" ELSE "idle"
           /\ in_run' = (in_run /\ o = "ok")
    /\ evaluated' = FALSE
    /\ last_op' = IF in_run THEN "run" ELSE "est_errors"
    /\ UNCHANGED <<config, cwd, run_cwd, fit_range, bins_in_fit_range, amplitude,
                   model_copies, predicted_counts, statval, covar_axis,
                   covariance, result, sherpa_fit, nfits>>

(* covar.extra_output of the estimator: an opaque matrix *)
CovarMatrix == 11

(* res.model.parameters.set_parameter_covariance for every result *)
attach_covariance(copies, res, cov, axis) ==
    [m \in 1..Len(copies) |->
        IF \E i \in 1..Len(res) : res[i].model = m
        THEN [copies[m] EXCEPT !.covariance = cov, !.covar_axis = axis]
        ELSE copies[m]]

(* The estimator returns; covariance is stored and attached to the results *)
EstEnd ==
    /\ pc = "err" /\ evaluated
    /\ covar_axis' = <<"amplitude">>
    /\ covariance' = CovarMatrix
    /\ result' = [i \in 1..Len(result) |->
                     [result[i] EXCEPT !.covar_axis = covar_axis',
                                       !.covariance = covariance']]
    /\ model_copies' = attach_covariance(model_copies, result, covariance',
                                         covar_axis')
    /\ outcome' = IF in_run THEN outcome ELSE "ok"
    /\ pc' = IF in_run THEN "write" ELSE "idle"
    /\ UNCHANGED <<config, fs, fit_range, bins_in_fit_range, amplitude,
                   predicted_counts, statval, sherpa_fit, evaluated, nfits, last_op>>

(* run(): result[0].to_yaml(filename), then os.chdir(cwd) *)
RunWrite(write_ok) ==
    /\ pc = "write" /\ in_run
    /\ cwd' = IF write_ok THEN run_cwd ELSE cwd
    /\ outcome' = IF write_ok THEN "ok" ELSE "IOError"
    /\ pc' = "idle"
    /\ in_run' = FALSE
    /\ UNCHANGED <<config, run_cwd, fit_range, bins_in_fit_range, amplitude,
                   model_copies, predicted_counts, statval, covar_axis,
                   covariance, result, sherpa_fit, evaluated, nfits, last_op>>

----------------------------------------------------------------------------
(* Specifications.  Each one draws the constructor's arguments from the    *)
(* part of the input space its properties are about.                       *)
TopEnergy == SetMax(Energies)

(* Fit ranges used while following whole fits: none, one cutting inside    *)
(* the second-to-last bin, one excluding every bin, one above all edges.   *)
LifeRanges == {None, <<EdgeStep, TopEnergy - 4>>,
               <<TopEnergy - 4, TopEnergy - 4>>, <<TopEnergy, TopEnergy>>}

(* all bins good or all bins bad, with or without off-vector *)
LifeObservations ==
    {Observation(MaxBins, TRUE, 0), Observation(MaxBins, FALSE, 0),
     Observation(MaxBins, TRUE, MaxBins)}

Init ==
    /\ Constructed(ObsLists(LifeObservations), LifeRanges)
    /\ method = "sherpa" /\ err_method_arg = "sherpa"
    /\ background_model = NoValue

Next ==
    \/ \E fr \in LifeRanges : SetFitRange(fr)
    \/ Fit
    \/ \E p \in Amps : Objective(p)
    \/ FitEnd
    \/ EstErrors
    \/ EstEnd

Spec == Init /\ [][Next]_vars

(* Backend names: every pair of method and err_method arguments *)
InitBackend ==
    /\ Constructed({<<Observation(MaxBins, TRUE, 0)>>}, {None})
    /\ background_model = NoValue

SpecBackend == InitBackend /\ [][Next]_vars

(* The profiled background under wstat, with and without a background     *)
(* model supplied by the user                                              *)
InitProfile ==
    /\ Constructed(ObsLists({Observation(MaxBins, TRUE, 0)}), LifeRanges)
    /\ method = "sherpa" /\ err_method_arg = "sherpa"
    /\ stat = "wstat"

SpecProfile == InitProfile /\ [][Next]_vars

(* run(): the working directory around fit, est_errors and the write *)
InitRun ==
    /\ Constructed(ObsLists(LifeObservations), {None})
    /\ method = "sherpa" /\ err_method_arg = "sherpa"
    /\ background_model = NoValue

NextRun ==
    \/ \E d \in Dirs \cup {NoDir}, ok \in BOOLEAN : Run(d, ok)
    \/ \E p \in Amps : Objective(p)
    \/ FitEnd
    \/ EstErrors
    \/ EstEnd
    \/ \E ok \in BOOLEAN : RunWrite(ok)

SpecRun == InitRun /\ [][NextRun]_vars

(* The fit range alone: every range against every quality threshold *)
InitRange ==
    /\ Constructed(ObsLists({o \in Observations : o.has_off}), FitRanges)
    /\ method = "sherpa" /\ err_method_arg = "sherpa"
    /\ stat = "wstat" /\ background_model = NoValue

NextRange == \E fr \in FitRanges : SetFitRange(fr)

SpecRange == InitRange /\ [][NextRange]_vars

(* Masking and statistic: reassign the range, predict, calc_statval *)
MaskRanges == {None} \cup
    {r \in RangePairs : /\ r[1] \in {EdgeStep, TopEnergy - 4, TopEnergy}
                       /\ r[2] \in {TopEnergy - 4, TopEnergy - 3, TopEnergy}}

MaskObservations == {Observation(MaxBins, TRUE, k) : k \in {0, 1}}

InitMask ==
    /\ Constructed(ObsLists(MaskObservations), MaskRanges)
    /\ method = "sherpa" /\ err_method_arg = "sherpa"

NextMask ==
    \/ \E fr \in MaskRanges : SetFitRange(fr)
    \/ PredictCounts
    \/ CalcStatval
    \/ \E v \in UNION {[1..n -> Amps] : n \in 1..2} : Likelihood1d(v)

SpecMask == InitMask /\ [][NextMask]_vars

----------------------------------------------------------------------------
(* Properties *)

RECURSIVE SumOver(_, _)
SumOver(f, S) ==
    IF S = {} THEN 0
    ELSE LET x == CHOOSE y \in S : TRUE IN f[x] + SumOver(f, S \ {x})

NoBadBins(obs) == \A b \in 1..obs.nbins : obs.quality[b] = 0
LacksOff == \E i \in 1..Len(obs_list) : ~obs_list[i].has_off
Failed == outcome \notin {"ok", "running"}

(* Unrestricted per-bin statistic of observation i for the current prediction *)
RawStat(i) ==
    [b \in 1..obs_list[i].nbins |->
        helper_on_stat(obs_list[i], predicted_counts[i], stat, background_model)[b]
        + helper_off_stat(obs_list[i], predicted_counts[i], stat, background_model)[b]]

(* Bins of observation i that the stored mask keeps *)
Kept(i) ==
    IF i <= Len(bins_in_fit_range) THEN Retained(bins_in_fit_range[i])
    ELSE 1..obs_list[i].nbins

AfterCalcStatval == last_op \in {"calc_statval", "likelihood_1d"} /\ outcome = "ok"

(* C1: under wstat, when any observation of the list lacks an off-vector,  *)
(* fit() fails with the configuration error (ValueError) and the optimizer *)
(* is never started.                                                       *)
C1_OffVectorRequiredForEveryObs ==
    (stat = "wstat" /\ LacksOff) =>
        /\ ~sherpa_fit /\ pc # "fit"
        /\ (last_op = "fit" => outcome = "ValueError")

(* C2: for every observation without bad bins and every fit range that     *)
(* keeps at least one of its bins, the true fit range lies within the fit  *)
(* range; without a fit range it is the first and last edge.               *)
C2_TrueFitRangeWithinFitRange ==
    \A i \in 1..Len(bins_in_fit_range) :
        (NoBadBins(obs_list[i]) /\ Retained(bins_in_fit_range[i]) # {}) =>
            LET tr == true_range_of(bins_in_fit_range[i], obs_list[i])
            IN  IF fit_range = None
                THEN tr = <<e_reco(obs_list[i])[1],
                            e_reco(obs_list[i])[obs_list[i].nbins + 1]>>
                ELSE fit_range[1] <= tr[1] /\ tr[2] <= fit_range[2]

(* C3: one observation of 3 bins without bad bins, fit range from the      *)
(* first edge up to at most the lower edge of bin 3: after calc_statval    *)
(* the total statistic is the sum of the per-bin values of bins 1 and 2.   *)
C3_RangeExcludesOnlyLastBin ==
    ( /\ Len(obs_list) = 1 /\ obs_list[1].nbins = 3 /\ NoBadBins(obs_list[1])
      /\ fit_range # None
      /\ fit_range[1] = e_reco(obs_list[1])[1]
      /\ fit_range[2] <= e_reco(obs_list[1])[3]
      /\ AfterCalcStatval ) =>
        /\ total_stat(statval) = RawStat(1)[1] + RawStat(1)[2]
        /\ statval[1][1][3] = 0 /\ statval[1][2][3] = 0

(* C4: when run() has changed the working directory and then fails, the    *)
(* working directory is again the one run() was called in.                 *)
C4_WorkingDirectoryRestoredOnFailure ==
    (last_op = "run" /\ ~in_run /\ Failed) => cwd = run_cwd

(* C5: with method 'sherpa' and an err_method argument other than          *)
(* 'sherpa', est_errors() fails and no error estimation runs.              *)
C5_UnsupportedErrMethodFails ==
    (method = "sherpa" /\ err_method_arg # "sherpa") =>
        /\ pc # "err"
        /\ (last_op = "est_errors" => Failed)

(* C6: when fit() ends with some observation having every bin excluded by  *)
(* fit range and quality, it has failed and the result list is empty.      *)
C6_NoPartialResults ==
    ( /\ last_op = "fit" /\ pc = "idle" /\ evaluated
      /\ \E i \in 1..Len(bins_in_fit_range) : Retained(bins_in_fit_range[i]) = {} ) =>
        Failed /\ result = <<>>

BestFit(r) == IF r.model = 0 THEN amplitude ELSE model_copies[r.model].amplitude

Frozen(r) == <<BestFit(r), r.statval, r.npred_src, r.npred_bkg, r.fit_range>>

(* C8: FitResults are added only when the optimizer returns, never during  *)
(* error estimation, and hold a model other than the live one; error       *)
(* estimation leaves their best-fit values, statistic, predicted counts    *)
(* and fit range unchanged and on return has attached the covariance and   *)
(* its axis to every FitResult and to its model copy.                      *)
C8_ResultsFrozenBeforeErrorEstimation ==
    /\ [][Len(result') > Len(result) =>
            pc = "fit" /\ evaluated /\ pc' \notin {"fit", "err"}]_vars
    /\ [][\A i \in 1..Len(result') : result'[i].model # 0]_vars
    /\ [][(pc = "err" \/ pc' = "err") =>
            /\ Len(result') = Len(result)
            /\ \A i \in 1..Len(result) : Frozen(result[i])' = Frozen(result[i])]_vars
    /\ [][(pc = "err" /\ pc' # "err" /\ ~Failed') =>
            \A i \in 1..Len(result') :
                /\ result'[i].covariance = CovarMatrix
                /\ result'[i].covar_axis = <<"amplitude">>
                /\ model_copies'[result'[i].model].covariance = CovarMatrix
                /\ model_copies'[result'[i].model].covar_axis = <<"amplitude">>]_vars

(* est_errors() has returned after a fit and left the live model at a      *)
(* parameter value other than the best fit the FitResult reports           *)
C8_Witness ==
    /\ last_op = "est_errors" /\ pc = "idle" /\ outcome = "ok"
    /\ result # <<>>
    /\ result[1].covariance = CovarMatrix
    /\ BestFit(result[1]) # amplitude

(* C9: after a successful fit() the result list holds exactly one          *)
(* FitResult per observation, however often the fit was repeated.          *)
C9_OneResultPerObservation ==
    (last_op = "fit" /\ pc = "idle" /\ outcome = "ok") =>
        Len(result) = Len(obs_list)

(* Profiled background of one observation for a signal prediction *)
Profiled(obs, sig) ==
    [b \in 1..obs.nbins |->
        get_wstat_mu_bkg(OnCounts(b), OffCounts(b), Alpha, sig[b]) * Alpha]

(* C10: under wstat, once predict_counts and calc_statval have run, every  *)
(* prediction record holds the profiled mu_bkg * alpha as background in    *)
(* every bin and the untouched signal prediction, the off-statistic is     *)
(* zero everywhere, and every FitResult stores the profiled value as       *)
(* npred_bkg.                                                              *)
C10_ProfiledBackgroundWrittenBack ==
    stat = "wstat" =>
        /\ statval # None =>
              \A i \in 1..Len(obs_list) :
                  /\ predicted_counts[i][1] =
                         predict_counts_helper(obs_list[i], amplitude, forward_folded)
                  /\ predicted_counts[i][2] =
                         Profiled(obs_list[i], predicted_counts[i][1])
                  /\ \A b \in 1..obs_list[i].nbins : statval[i][2][b] = 0
        /\ \A k \in 1..Len(result) :
              result[k].npred_bkg = Profiled(obs_list[result[k].obs], result[k].npred_src)

(* a wstat fit with a user-supplied background model and a masked bin has  *)
(* produced a FitResult                                                    *)
C10_Witness ==
    /\ stat = "wstat" /\ background_model # NoValue
    /\ last_op = "fit" /\ pc = "idle" /\ outcome = "ok"
    /\ result # <<>>
    /\ \E b \in 1..obs_list[1].nbins : ~bins_in_fit_range[1][b]
    /\ result[Len(result)].npred_bkg
           # predict_counts_helper(obs_list[1], background_model, FALSE)

====
